---- MODULE Spec2Model ----
(***************************************************************************)
(* Model of the TU-DO dimmer firmware (src/src/main.cpp): the programmed / *)
(* live arbitration of loop(), the serial colour protocol of serialEvent(),*)
(* the patch bank (change_patch, save_patch) and the boot sequence setup().*)
(* Characters are ASCII codes, 8-bit channels are naturals below 256 and   *)
(* analogRead() values are naturals in 0..1023.                            *)
(***************************************************************************)
EXTENDS Integers, Sequences, FiniteSets, TLC

VARIABLES
    cfg,              \* build configuration (config.h macros)
    eeprom,           \* persisted patch slots
    booted,           \* setup() has run since power-up
    pots,             \* raw analogRead() value of each potentiometer at the last read
    strip,            \* colour held by rgbstrp (RGBStrip::set / RGBStrip::get)
    mainstrp_bright,  \* current brightness of the main light strip
    rgbmpots,         \* current potentiometer values (global rgbmpots)
    avg,              \* average potentiometer values (global avg)
    patches,          \* patches[10]
    current_patch,    \* currently selected patch
    programmed,       \* Held (TRUE) or Live (FALSE)
    cmdbuf,           \* static String cmdbuf of serialEvent()
    tx,               \* lines written to Serial by the last handler
    indicator,        \* patch indicator: digit and the requests of the last handler
    steady,           \* every analogRead() since the baseline was sampled returned pots
    adoptedBy,        \* the handler that last adopted a colour and sampled the baseline
    ev,               \* the last handler that ran, with its inputs
    call              \* the last function called on its own: name, arguments, result

vars == << cfg, eeprom, booted, pots, strip, mainstrp_bright, rgbmpots, avg,
           patches, current_patch, programmed, cmdbuf, tx, indicator, steady,
           adoptedBy, ev, call >>

----------------------------------------------------------------------------
(* Program constants *)

ANALOG_READ_MAX == 1023
RGB_HEX_STR_LEN == 7
RGBM_HEX_STR_LEN == 9
NumPatches == 10
LastPatch == 9

(* Characters the code names *)
CH_g == 103
CH_BEL == 7
CH_NL == 10
CH_HASH == 35

(* Bounds of the model *)
MaxBuf == 11
MaxSaveSlot == 0

Channels == {"R", "G", "B", "M"}

Black == [R |-> 0, G |-> 0, B |-> 0]
Zero4 == [R |-> 0, G |-> 0, B |-> 0, M |-> 0]

Rgb(c) == [R |-> c.R, G |-> c.G, B |-> c.B]
Rgbm(rgb, m) == [R |-> rgb.R, G |-> rgb.G, B |-> rgb.B, M |-> m]

----------------------------------------------------------------------------
(* Build configurations: the macros of config.h that main.cpp tests. *)

NoBound == [R |-> 0, G |-> 0, B |-> 0, M |-> 0]
LowBound == [R |-> 3, G |-> 3, B |-> 3, M |-> 3]

Configs ==
    { [NO_MAIN_STRIP |-> FALSE, POTS_INVERTED |-> FALSE, LOWER_BOUND |-> NoBound,
       POT_MOV_DET_MAX_DEV |-> 1],
      [NO_MAIN_STRIP |-> TRUE, POTS_INVERTED |-> TRUE, LOWER_BOUND |-> NoBound,
       POT_MOV_DET_MAX_DEV |-> 0],
      [NO_MAIN_STRIP |-> FALSE, POTS_INVERTED |-> FALSE, LOWER_BOUND |-> LowBound,
       POT_MOV_DET_MAX_DEV |-> 1] }

POT_MOV_DET_AVG_SAMPLES == 2

----------------------------------------------------------------------------
(* Arithmetic helpers *)

abs(x) == IF x > 0 THEN x ELSE -x

RECURSIVE uint32_pow(_, _)
uint32_pow(base, pow) ==
    IF pow = 0 THEN 1 ELSE uint32_pow(base, pow - 1) * base

adc_to_rgb(val) ==
    IF val = 0 THEN 0
    ELSE IF val < 4 THEN 1
    ELSE (val \div 4) % 256

(* The value the code adds up or converts: analogRead(pin), or
   ANALOG_READ_MAX - analogRead(pin) when POTS_INVERTED is defined. *)
PotValue(c, raw) == IF c.POTS_INVERTED THEN ANALOG_READ_MAX - raw ELSE raw

RECURSIVE SumSeq(_)
SumSeq(s) == IF s = << >> THEN 0 ELSE Head(s) + SumSeq(Tail(s))

(* avg_pot_read on the samples analogRead returned: avg/samples is an integer
   division, of which round() changes nothing. *)
avg_pot_read(c, reads) ==
    adc_to_rgb((SumSeq([i \in 1..Len(reads) |-> PotValue(c, reads[i])])
                    \div Len(reads)) % 65536)

(* readings: a sequence of raw 4-channel reads, one per sample *)
avg_rgbm_pot_read(c, readings) ==
    [ch \in Channels |-> avg_pot_read(c, [i \in 1..Len(readings) |-> readings[i][ch]])]

LowerBounded(c, ch, v) ==
    IF c.LOWER_BOUND[ch] > 0 /\ v <= c.LOWER_BOUND[ch] THEN 0 ELSE v

rgbm_pots_read(c, raw) ==
    [ch \in Channels |-> LowerBounded(c, ch, adc_to_rgb(PotValue(c, raw[ch])))]

(* mutants of rgbm_pot_mov_det: >= for >, and the G channel forgotten *)
rgbm_pot_mov_det_ge(c, cur, a, max_dev) ==
    \/ abs(cur.R - a.R) >= max_dev
    \/ abs(cur.G - a.G) >= max_dev
    \/ abs(cur.B - a.B) >= max_dev
    \/ (~c.NO_MAIN_STRIP /\ abs(cur.M - a.M) >= max_dev)

rgbm_pot_mov_det_noG(c, cur, a, max_dev) ==
    \/ abs(cur.R - a.R) > max_dev
    \/ abs(cur.B - a.B) > max_dev
    \/ (~c.NO_MAIN_STRIP /\ abs(cur.M - a.M) > max_dev)

(* mutant of rgbm_pot_mov_det: Main compared in every build *)
rgbm_pot_mov_det_main(c, cur, a, max_dev) ==
    \/ abs(cur.R - a.R) > max_dev
    \/ abs(cur.G - a.G) > max_dev
    \/ abs(cur.B - a.B) > max_dev
    \/ abs(cur.M - a.M) > max_dev

rgbm_pot_mov_det(c, cur, a, max_dev) ==
    \/ abs(cur.R - a.R) > max_dev
    \/ abs(cur.G - a.G) > max_dev
    \/ abs(cur.B - a.B) > max_dev
    \/ (~c.NO_MAIN_STRIP /\ abs(cur.M - a.M) > max_dev)

----------------------------------------------------------------------------
(* Arduino String operations used by the protocol; a String is a sequence of
   character codes, indexed from 0 as in the code. *)

CharAt(s, i) == IF i < Len(s) THEN s[i + 1] ELSE 0

Substring(s, left, right) ==
    LET l == IF left > right THEN right ELSE left
        r0 == IF left > right THEN left ELSE right
        r == IF r0 > Len(s) THEN Len(s) ELSE r0
    IN  IF l >= Len(s) THEN << >> ELSE SubSeq(s, l + 1, r)

(* [ok, val]: val is the uint32_t written through _hex when ok.  The callers
   pass at most six characters (substring(1, 7), substring(7, 9)), so hex and
   the powers of 16 stay below 2^24 and the 32-bit arithmetic never wraps. *)
RECURSIVE hexstr_scan(_, _, _)
hexstr_scan(hexstr, i, hex) ==
    IF i >= Len(hexstr) THEN [ok |-> TRUE, val |-> hex]
    ELSE LET ch == CharAt(hexstr, i)
             w == uint32_pow(16, (Len(hexstr) - 1 - i) % 256)
         IN  IF ch >= 48 /\ ch <= 57
                 THEN hexstr_scan(hexstr, i + 1, hex + (ch - 48) * w)
             ELSE IF ch >= 65 /\ ch <= 70
                 THEN hexstr_scan(hexstr, i + 1, hex + (ch - 55) * w)
             ELSE IF ch >= 97 /\ ch <= 102
                 THEN hexstr_scan(hexstr, i + 1, hex + (ch - 87) * w)
             ELSE [ok |-> FALSE, val |-> 0]

hexstr_to_uint32(hexstr) == hexstr_scan(hexstr, 0, 0)

(* mutant of HtmlColor: the bytes taken in the order B, G, R *)
HtmlColor_bgr(rgb_hex) ==
    [R |-> rgb_hex % 256, G |-> (rgb_hex \div 256) % 256, B |-> (rgb_hex \div 65536) % 256]

(* RgbColor(HtmlColor(rgb_hex)) of NeoPixelBus *)
HtmlColor(rgb_hex) ==
    [R |-> (rgb_hex \div 65536) % 256, G |-> (rgb_hex \div 256) % 256, B |-> rgb_hex % 256]

(* [ok, rgb]: rgb is the colour written through the pointer when ok *)
hexstr_to_rgb(hex) ==
    IF CharAt(hex, 0) # CH_HASH THEN [ok |-> FALSE, rgb |-> Black]
    ELSE LET r == hexstr_to_uint32(Substring(hex, 1, RGB_HEX_STR_LEN))
         IN  IF r.ok THEN [ok |-> TRUE, rgb |-> HtmlColor(r.val)]
             ELSE [ok |-> FALSE, rgb |-> Black]

(* mutants of hexstr_to_rgbm: Main taken one character early, and the Main
   digits not validated *)
hexstr_to_rgbm_early(hex) ==
    IF CharAt(hex, 0) # CH_HASH THEN [ok |-> FALSE, rgb |-> Black, M |-> 0]
    ELSE LET c == hexstr_to_rgb(Substring(hex, 0, RGB_HEX_STR_LEN))
         IN  IF ~c.ok THEN [ok |-> FALSE, rgb |-> Black, M |-> 0]
             ELSE LET m == hexstr_to_uint32(Substring(hex, RGB_HEX_STR_LEN - 1,
                                                      RGBM_HEX_STR_LEN - 1))
                  IN  IF ~m.ok THEN [ok |-> FALSE, rgb |-> c.rgb, M |-> 0]
                      ELSE [ok |-> TRUE, rgb |-> c.rgb, M |-> m.val % 256]

hexstr_to_rgbm_lax(hex) ==
    IF CharAt(hex, 0) # CH_HASH THEN [ok |-> FALSE, rgb |-> Black, M |-> 0]
    ELSE LET c == hexstr_to_rgb(Substring(hex, 0, RGB_HEX_STR_LEN))
         IN  IF ~c.ok THEN [ok |-> FALSE, rgb |-> Black, M |-> 0]
             ELSE LET m == hexstr_to_uint32(Substring(hex, RGB_HEX_STR_LEN, RGBM_HEX_STR_LEN))
                  IN  [ok |-> TRUE, rgb |-> c.rgb, M |-> m.val % 256]

(* [ok, rgb, M] *)
hexstr_to_rgbm(hex) ==
    IF CharAt(hex, 0) # CH_HASH THEN [ok |-> FALSE, rgb |-> Black, M |-> 0]
    ELSE LET c == hexstr_to_rgb(Substring(hex, 0, RGB_HEX_STR_LEN))
         IN  IF ~c.ok THEN [ok |-> FALSE, rgb |-> Black, M |-> 0]
             ELSE LET m == hexstr_to_uint32(Substring(hex, RGB_HEX_STR_LEN, RGBM_HEX_STR_LEN))
                  IN  IF ~m.ok THEN [ok |-> FALSE, rgb |-> c.rgb, M |-> 0]
                      ELSE [ok |-> TRUE, rgb |-> c.rgb, M |-> m.val % 256]

(* String(v, HEX) and String(v): digits without padding, hex in lower case *)
HexDigit(d) == IF d < 10 THEN 48 + d ELSE 87 + d

RECURSIVE StringHex(_)
StringHex(v) ==
    IF v < 16 THEN << HexDigit(v) >> ELSE StringHex(v \div 16) \o << HexDigit(v % 16) >>

RECURSIVE StringDec(_)
StringDec(v) ==
    IF v < 10 THEN << 48 + v >> ELSE StringDec(v \div 10) \o << 48 + (v % 10) >>

(* mutant of PadHex: no padding *)
PadHex_none(h) == h

PadHex(h) == IF Len(h) = 1 THEN << 48 >> \o h ELSE h

(* The five lines print_rgbm writes; a line is its literal text and the
   characters appended to it. *)
print_rgbm(c) ==
    << [text |-> "Current Color: #",
        arg |-> PadHex(StringHex(c.R)) \o PadHex(StringHex(c.G))
                  \o PadHex(StringHex(c.B)) \o PadHex(StringHex(c.M))],
       [text |-> "R: ", arg |-> StringDec(c.R)],
       [text |-> "G: ", arg |-> StringDec(c.G)],
       [text |-> "B: ", arg |-> StringDec(c.B)],
       [text |-> "M: ", arg |-> StringDec(c.M)] >>

InvalidLine == [text |-> "Invalid hex value!", arg |-> << >>]

----------------------------------------------------------------------------
(* The handlers, as functions of the globals they read and write.  g is a
   record of the globals (the variables of the same names), plus
     req     the requests made to patch_indicator by this handler,
     sampled whether avg_rgbm_pot_read ran in this handler,
     peak    the longest cmdbuf this handler held. *)

Globals ==
    [strip |-> strip, mainstrp_bright |-> mainstrp_bright, rgbmpots |-> rgbmpots,
     avg |-> avg, patches |-> patches, current_patch |-> current_patch,
     programmed |-> programmed, eeprom |-> eeprom, cmdbuf |-> cmdbuf,
     digit |-> indicator.digit, tx |-> << >>, req |-> << >>, sampled |-> FALSE,
     peak |-> Len(cmdbuf)]

(* The colour authors_credit leaves on the strip before it is restored *)
CreditsColor == [R |-> 255, G |-> 0, B |-> 255]

authors_credit(g) == [g EXCEPT !.strip = CreditsColor]

(* mutant of serial_query: the buffer is kept *)
serial_query_keep(g) ==
    [g EXCEPT !.tx = @ \o print_rgbm(Rgbm(g.strip, g.mainstrp_bright))]

(* case 'g' of serialEvent *)
serial_query(g) ==
    [g EXCEPT !.tx = @ \o print_rgbm(Rgbm(g.strip, g.mainstrp_bright)),
              !.cmdbuf = << >>]

(* mutant of serial_credits: the colour is not set back *)
serial_credits_norestore(g) ==
    [authors_credit(g) EXCEPT !.cmdbuf = << >>]

(* case '\a' of serialEvent *)
serial_credits(g) ==
    LET prev_color == g.strip
    IN  [authors_credit(g) EXCEPT !.strip = prev_color, !.cmdbuf = << >>]

(* case '\n' of serialEvent *)
serial_line(c, g, readings) ==
    LET applied ==
            IF Len(g.cmdbuf) = RGB_HEX_STR_LEN THEN
                LET p == hexstr_to_rgb(g.cmdbuf)
                IN  [valid |-> p.ok,
                     g |-> IF p.ok THEN [g EXCEPT !.strip = p.rgb] ELSE g]
            ELSE IF Len(g.cmdbuf) = RGBM_HEX_STR_LEN THEN
                LET p == hexstr_to_rgbm(g.cmdbuf)
                IN  [valid |-> p.ok,
                     g |-> IF ~p.ok THEN g
                           ELSE IF c.NO_MAIN_STRIP THEN [g EXCEPT !.strip = p.rgb]
                           ELSE [g EXCEPT !.strip = p.rgb, !.mainstrp_bright = p.M]]
            ELSE [valid |-> FALSE, g |-> g]
        g1 == applied.g
    IN  IF applied.valid
            THEN [g1 EXCEPT !.avg = avg_rgbm_pot_read(c, readings),
                            !.programmed = TRUE,
                            !.sampled = TRUE,
                            !.cmdbuf = << >>]
            ELSE [g1 EXCEPT !.tx = @ \o << InvalidLine >>, !.cmdbuf = << >>]

(* default case of serialEvent *)
serial_append(g, ch) ==
    [g EXCEPT !.cmdbuf = @ \o << ch >>,
              !.peak = IF Len(g.cmdbuf) + 1 > @ THEN Len(g.cmdbuf) + 1 ELSE @]

serial_char(c, g, ch, readings) ==
    IF ch = CH_g THEN serial_query(g)
    ELSE IF ch = CH_BEL THEN serial_credits(g)
    ELSE IF ch = CH_NL THEN serial_line(c, g, readings)
    ELSE serial_append(g, ch)

(* serialEvent on the bytes Serial has available *)
RECURSIVE serialEvent(_, _, _, _)
serialEvent(c, g, input, readings) ==
    IF input = << >> THEN g
    ELSE serialEvent(c, serial_char(c, g, Head(input), readings), Tail(input), readings)

(* mutants of change_patch: Next at the last patch wraps to the first, and
   the slot of the old cursor is loaded *)
change_patch_wrap(c, g, up, readings) ==
    LET invalid == ~(up \/ (~up /\ g.current_patch > 0))
        cp == IF up /\ g.current_patch < LastPatch THEN g.current_patch + 1
              ELSE IF up THEN 0
              ELSE IF ~up /\ g.current_patch > 0 THEN g.current_patch - 1
              ELSE g.current_patch
    IN  IF ~invalid
            THEN [g EXCEPT !.current_patch = cp,
                           !.strip = Rgb(g.patches[cp]),
                           !.mainstrp_bright =
                               IF c.NO_MAIN_STRIP THEN @ ELSE g.patches[cp].M,
                           !.avg = avg_rgbm_pot_read(c, readings),
                           !.programmed = TRUE,
                           !.sampled = TRUE,
                           !.digit = cp,
                           !.req = @ \o << "set", "show" >>]
            ELSE [g EXCEPT !.req = @ \o << "show" >>]

change_patch_stale(c, g, up, readings) ==
    LET invalid == ~((up /\ g.current_patch < LastPatch) \/ (~up /\ g.current_patch > 0))
        cp == IF up /\ g.current_patch < LastPatch THEN g.current_patch + 1
              ELSE IF ~up /\ g.current_patch > 0 THEN g.current_patch - 1
              ELSE g.current_patch
    IN  IF ~invalid
            THEN [g EXCEPT !.current_patch = cp,
                           !.strip = Rgb(g.patches[g.current_patch]),
                           !.mainstrp_bright =
                               IF c.NO_MAIN_STRIP THEN @
                               ELSE g.patches[g.current_patch].M,
                           !.avg = avg_rgbm_pot_read(c, readings),
                           !.programmed = TRUE,
                           !.sampled = TRUE,
                           !.digit = cp,
                           !.req = @ \o << "set", "show" >>]
            ELSE [g EXCEPT !.req = @ \o << "show" >>]

change_patch(c, g, up, readings) ==
    LET invalid == ~((up /\ g.current_patch < LastPatch) \/ (~up /\ g.current_patch > 0))
        cp == IF up /\ g.current_patch < LastPatch THEN g.current_patch + 1
              ELSE IF ~up /\ g.current_patch > 0 THEN g.current_patch - 1
              ELSE g.current_patch
    IN  IF ~invalid
            THEN [g EXCEPT !.current_patch = cp,
                           !.strip = Rgb(g.patches[cp]),
                           !.mainstrp_bright =
                               IF c.NO_MAIN_STRIP THEN @ ELSE g.patches[cp].M,
                           !.avg = avg_rgbm_pot_read(c, readings),
                           !.programmed = TRUE,
                           !.sampled = TRUE,
                           !.digit = cp,
                           !.req = @ \o << "set", "show" >>]
            ELSE [g EXCEPT !.req = @ \o << "show" >>]

(* mutant of save_patch: the slot is written in memory only *)
save_patch_ram(g) ==
    LET slot == Rgbm(g.strip, g.mainstrp_bright)
    IN  [g EXCEPT !.patches[g.current_patch] = slot,
                  !.req = @ \o << "blink" >>]

(* mutant of save_patch: the potentiometer reading is saved *)
save_patch_pots(g) ==
    LET slot == g.rgbmpots
    IN  [g EXCEPT !.patches[g.current_patch] = slot,
                  !.eeprom[g.current_patch] = slot,
                  !.req = @ \o << "blink" >>]

save_patch(g) ==
    LET slot == Rgbm(g.strip, g.mainstrp_bright)
    IN  [g EXCEPT !.patches[g.current_patch] = slot,
                  !.eeprom[g.current_patch] = slot,
                  !.req = @ \o << "blink" >>]

(* mutant of arbitrate: the baseline is consulted in Live too *)
arbitrate_gated(c, g, raw) ==
    LET reading == rgbm_pots_read(c, raw)
        g1 == [g EXCEPT !.rgbmpots = reading]
    IN  IF rgbm_pot_mov_det(c, reading, g.avg, c.POT_MOV_DET_MAX_DEV)
            THEN [g1 EXCEPT !.strip = Rgb(reading),
                            !.mainstrp_bright = IF c.NO_MAIN_STRIP THEN @ ELSE reading.M,
                            !.programmed = FALSE]
            ELSE g1

(* mutant of arbitrate: on movement the reading is written and the hold kept *)
arbitrate_leak(c, g, raw) ==
    LET reading == rgbm_pots_read(c, raw)
        g1 == [g EXCEPT !.rgbmpots = reading]
    IN  IF ~g.programmed \/ rgbm_pot_mov_det(c, reading, g.avg, c.POT_MOV_DET_MAX_DEV)
            THEN [g1 EXCEPT !.strip = Rgb(reading),
                            !.mainstrp_bright = IF c.NO_MAIN_STRIP THEN @ ELSE reading.M]
            ELSE g1

(* the first statements of loop(): read the potentiometers and arbitrate *)
arbitrate(c, g, raw) ==
    LET reading == rgbm_pots_read(c, raw)
        g1 == [g EXCEPT !.rgbmpots = reading]
    IN  IF ~g.programmed \/ rgbm_pot_mov_det(c, reading, g.avg, c.POT_MOV_DET_MAX_DEV)
            THEN [g1 EXCEPT !.strip = Rgb(reading),
                            !.mainstrp_bright = IF c.NO_MAIN_STRIP THEN @ ELSE reading.M,
                            !.programmed = FALSE]
            ELSE g1

(* loop(): enc is what patch_encoder.action() returns *)
loop(c, g, raw, enc, readings) ==
    LET g1 == arbitrate(c, g, raw)
    IN  IF enc = "pressed" THEN save_patch(g1)
        ELSE IF enc = "left" THEN change_patch(c, g1, FALSE, readings)
        ELSE IF enc = "right" THEN change_patch(c, g1, TRUE, readings)
        ELSE g1

(* The lines setup() prints *)
BootLines ==
    << [text |-> "BOOT_MSG_ASCII_ART", arg |-> << >>],
       [text |-> "Author(s): ", arg |-> << >>],
       [text |-> "License: ", arg |-> << >>],
       [text |-> "Build date: ", arg |-> << >>],
       [text |-> "Documentation: ", arg |-> << >>] >>

(* setup(): the globals start zeroed; rom is the EEPROM content *)
setup(c, rom, readings) ==
    [strip |-> Rgb(rom[0]),
     mainstrp_bright |-> IF c.NO_MAIN_STRIP THEN 0 ELSE rom[0].M,
     rgbmpots |-> Zero4,
     avg |-> avg_rgbm_pot_read(c, readings),
     patches |-> rom,
     current_patch |-> 0,
     programmed |-> TRUE,
     eeprom |-> rom,
     cmdbuf |-> << >>,
     digit |-> 0,
     tx |-> BootLines,
     req |-> << "set", "show" >>,
     sampled |-> TRUE,
     peak |-> 0]

----------------------------------------------------------------------------
(* Inputs *)

Pos(r, g, b, m) == [R |-> r, G |-> g, B |-> b, M |-> m]

(* Raw potentiometer positions: a rest position, R or M a step of one 8-bit
   unit away from it, and each channel in turn two units away from it. *)
RestPos == Pos(8, 8, 8, 8)

PotPositions ==
    { RestPos, Pos(12, 8, 8, 8), Pos(8, 8, 8, 12),
      Pos(16, 8, 8, 8), Pos(8, 16, 8, 8), Pos(8, 8, 16, 8), Pos(8, 8, 8, 16) }

FewPositions == { RestPos, Pos(16, 8, 8, 8) }

PatchPositions == { RestPos, Pos(16, 8, 8, 16) }

(* The samples one avg_rgbm_pot_read takes, over the positions ps: the knobs
   at rest in one position, or leaving the rest position while it samples. *)
ReadingsOf(ps) ==
    { r \in [1..POT_MOV_DET_AVG_SAMPLES -> ps] :
        r[1] = r[POT_MOV_DET_AVG_SAMPLES] \/ r[1] = RestPos }

NoReadings == [i \in 1..POT_MOV_DET_AVG_SAMPLES |-> RestPos]

AllSame(readings) == \A i \in 1..Len(readings) : readings[i] = readings[1]

EncoderActions == {"none", "pressed", "left", "right"}

(* Byte chunks serialEvent finds available *)
ChunkHead == << 35, 49, 97, 66 >>                          \* #1aB
ChunkTail7 == << 50, 99, 51, 10 >>                         \* 2c3\n
ChunkTail9 == << 50, 99, 51, 68, 52, 10 >>                 \* 2c3D4\n
ChunkNotHex == << 35, 90, 90, 90, 90, 90, 90, 10 >>        \* #ZZZZZZ\n
ChunkBadMain == << 35, 49, 97, 66, 50, 99, 51, 90, 122, 10 >>  \* #1aB2c3Zz\n
ChunkNoHash == << 48, 49, 97, 66, 50, 99, 51, 10 >>        \* 01aB2c3\n
ChunkQuery == << 103 >>                                    \* g
ChunkCredits == << 7 >>                                    \* \a
ChunkLine9 == << 35, 49, 97, 66, 50, 99, 51, 68, 52, 10 >> \* #1aB2c3D4\n

\* #1aB2c3D4e5\n#1aB2c3\n
ChunkRecover ==
    << 35, 49, 97, 66, 50, 99, 51, 68, 52, 101, 53, 10,
       35, 49, 97, 66, 50, 99, 51, 10 >>

ChunkLine7 == << 35, 49, 97, 66, 50, 99, 51, 10 >>         \* #1aB2c3\n

Chunks ==
    { ChunkHead, ChunkTail7, ChunkTail9, ChunkNotHex, ChunkBadMain, ChunkNoHash,
      ChunkQuery, ChunkCredits, ChunkRecover }

(* EEPROM contents at first power-up *)
Slot(i) == [R |-> i, G |-> 10 + i, B |-> 20 + i, M |-> 30 + i]

InitBanks ==
    { [i \in 0..(NumPatches - 1) |-> IF i = 0 THEN s0 ELSE Slot(i)] :
        s0 \in { [R |-> 10, G |-> 20, B |-> 30, M |-> 40],
                 [R |-> 255, G |-> 255, B |-> 255, M |-> 255] } }

----------------------------------------------------------------------------
(* The state machine *)

(* The last handler: which one, what the encoder reported, the bytes received,
   and whether the controller was Held and what cmdbuf held when it started *)
Event(op, enc, input) ==
    [op |-> op, enc |-> enc, input |-> input, held |-> programmed, buf |-> cmdbuf]

NoEvent == [op |-> "reset", enc |-> "none", input |-> << >>, held |-> FALSE, buf |-> << >>]

NoCall == [fn |-> "none", arg |-> << >>, ret |-> << >>, out |-> << >>]

Init ==
    /\ cfg \in Configs
    /\ eeprom \in InitBanks
    /\ booted = FALSE
    /\ pots = RestPos
    /\ strip = Black
    /\ mainstrp_bright = 0
    /\ rgbmpots = Zero4
    /\ avg = Zero4
    /\ patches = [i \in 0..(NumPatches - 1) |-> Zero4]
    /\ current_patch = 0
    /\ programmed = FALSE
    /\ cmdbuf = << >>
    /\ tx = << >>
    /\ indicator = [digit |-> 0, req |-> << >>]
    /\ steady = FALSE
    /\ adoptedBy = "none"
    /\ ev = NoEvent
    /\ call = NoCall

(* Write the globals a handler returned back to the variables *)
Store(g) ==
    /\ strip' = g.strip
    /\ mainstrp_bright' = g.mainstrp_bright
    /\ rgbmpots' = g.rgbmpots
    /\ avg' = g.avg
    /\ patches' = g.patches
    /\ current_patch' = g.current_patch
    /\ programmed' = g.programmed
    /\ eeprom' = g.eeprom
    /\ cmdbuf' = g.cmdbuf
    /\ tx' = g.tx
    /\ indicator' = [digit |-> g.digit, req |-> g.req]

(* setup() runs once after power-up; ps are the positions the knobs take *)
SetupOn(ps) ==
    /\ ~booted
    /\ \E readings \in ReadingsOf(ps) :
       \E g \in {setup(cfg, eeprom, readings)} :
        /\ Store(g)
        /\ pots' = readings[Len(readings)]
        /\ steady' = AllSame(readings)
    /\ adoptedBy' = "setup"
    /\ booted' = TRUE
    /\ ev' = Event("setup", "none", << >>)
    /\ UNCHANGED << cfg, call >>

(* One pass of loop(): the knobs are at raw, the encoder reports enc; the
   operator saves only while one of the first MaxSaveSlot + 1 patches is
   selected. *)
LoopOn(ps, encs) ==
    /\ booted
    /\ \E raw \in ps, enc \in encs :
        /\ enc = "pressed" => current_patch <= MaxSaveSlot
        /\ \E g0 \in {loop(cfg, Globals, raw, enc, NoReadings)} :
           \E readings \in (IF g0.sampled THEN ReadingsOf(ps) ELSE {NoReadings}) :
            \E g \in {IF g0.sampled THEN loop(cfg, Globals, raw, enc, readings) ELSE g0} :
                /\ Store(g)
                /\ pots' = IF g.sampled THEN readings[Len(readings)] ELSE raw
                /\ steady' = IF g.sampled THEN AllSame(readings)
                             ELSE steady /\ raw = pots
                /\ adoptedBy' = IF g.sampled THEN "change_patch" ELSE adoptedBy
        /\ ev' = Event("loop", enc, << >>)
    /\ UNCHANGED << cfg, booted, call >>

(* serialEvent() runs between two passes of loop() on the bytes received;
   the sender never lets a line grow beyond MaxBuf characters. *)
SerialOn(ps, chunks) ==
    /\ booted
    /\ \E input \in chunks :
        /\ \E g0 \in {serialEvent(cfg, Globals, input, NoReadings)} :
           \E readings \in (IF g0.sampled THEN ReadingsOf(ps) ELSE {NoReadings}) :
            \E g \in {IF g0.sampled THEN serialEvent(cfg, Globals, input, readings)
                                     ELSE g0} :
                /\ g.peak <= MaxBuf
                /\ Store(g)
                /\ pots' = IF g.sampled THEN readings[Len(readings)] ELSE pots
                /\ steady' = IF g.sampled THEN AllSame(readings) ELSE steady
                /\ adoptedBy' = IF g.sampled THEN "serialEvent" ELSE adoptedBy
        /\ ev' = Event("serial", "none", input)
    /\ UNCHANGED << cfg, booted, call >>

(* Power is cut and restored: the globals are zeroed, the EEPROM is kept *)
PowerCycle ==
    /\ booted
    /\ booted' = FALSE
    /\ pots' = RestPos
    /\ strip' = Black
    /\ mainstrp_bright' = 0
    /\ rgbmpots' = Zero4
    /\ avg' = Zero4
    /\ patches' = [i \in 0..(NumPatches - 1) |-> Zero4]
    /\ current_patch' = 0
    /\ programmed' = FALSE
    /\ cmdbuf' = << >>
    /\ tx' = << >>
    /\ indicator' = [digit |-> 0, req |-> << >>]
    /\ steady' = FALSE
    /\ adoptedBy' = "none"
    /\ ev' = NoEvent
    /\ UNCHANGED << cfg, eeprom, call >>

(* Spec: the knobs move over every position, no encoder or serial input *)
Setup == SetupOn(PotPositions)
Loop == LoopOn(PotPositions, {"none"})
Next == Setup \/ Loop \/ PowerCycle
Spec == Init /\ [][Next]_vars

(* SpecSerial: the serial protocol, between passes of loop() *)
SerialSetup == SetupOn(FewPositions)
SerialLoop == LoopOn(FewPositions, {"none"})
SerialEvent == SerialOn(FewPositions, Chunks)
NextSerial == SerialSetup \/ SerialLoop \/ SerialEvent \/ PowerCycle
SpecSerial == Init /\ [][NextSerial]_vars

(* SpecPatch: the encoder navigates and saves, a colour is set over serial *)
PatchSetup == SetupOn(PatchPositions)
PatchLoop == LoopOn(PatchPositions, EncoderActions)
PatchSerial == SerialOn(PatchPositions, {ChunkLine9})
NextPatch == PatchSetup \/ PatchLoop \/ PatchSerial \/ PowerCycle
SpecPatch == Init /\ [][NextPatch]_vars

(* SpecAdopt: every way a colour is adopted, and what follows it: the
   encoder navigates, whole colour lines and a line that is not valid arrive
   over serial, the knobs move *)
NavActions == {"none", "left", "right"}
AdoptSetup == SetupOn(FewPositions)
AdoptLoop == LoopOn(FewPositions, NavActions)
AdoptSerial == SerialOn(FewPositions, {ChunkLine7, ChunkLine9, ChunkNotHex})
NextAdopt == AdoptSetup \/ AdoptLoop \/ AdoptSerial \/ PowerCycle
SpecAdopt == Init /\ [][NextAdopt]_vars

----------------------------------------------------------------------------
(* The functions called on their own *)

(* Bounds of the arguments *)
MaxPairs == 4
MaxSamples == 3

(* Pairs of hex digits: 00, 1a, B2, fF, 9A *)
PairPool == { << 48, 48 >>, << 49, 97 >>, << 66, 50 >>, << 102, 70 >>, << 57, 65 >> }

(* Pairs with a character next to a range of hex digits: / : @ G ` g, and a
   blank *)
BadPairs ==
    { << 47, 48 >>, << 49, 58 >>, << 64, 65 >>, << 71, 48 >>, << 97, 96 >>,
      << 103, 49 >>, << 48, 32 >> }

RECURSIVE Flatten(_)
Flatten(ss) == IF ss = << >> THEN << >> ELSE Head(ss) \o Flatten(Tail(ss))

(* strings of k pairs of hex digits *)
PairStrings(k) == { Flatten(f) : f \in [1..k -> PairPool] }

(* k pairs, 1a everywhere but a bad pair at position p *)
BadStrings(k) ==
    { Flatten([i \in 1..k |-> IF i = p THEN b ELSE << 49, 97 >>]) :
        p \in 1..k, b \in BadPairs }

(* an odd number of hex digits *)
OddStrings == { Flatten([i \in 1..k |-> << 49, 97 >>]) \o << 53 >> : k \in 0..(MaxPairs - 1) }

(* The strings handed to the parsers: with '#', with '0' in its place, or
   with nothing in front *)
HexArgs ==
    { prefix \o body :
        prefix \in { << CH_HASH >>, << 48 >>, << >> },
        body \in (UNION { PairStrings(k) : k \in 0..MaxPairs })
                   \cup BadStrings(3) \cup BadStrings(4) \cup OddStrings }

(* Channel values and thresholds handed to rgbm_pot_mov_det *)
MovValues == { 0, 1, 3, 255 }
MovBaselines == { [ch \in Channels |-> b] : b \in { 0, 1, 255 } }
MovThresholds == { 0, 1, 2, 254, 255 }

(* analogRead() values handed to avg_pot_read *)
RawPool == { 0, 1, 3, 4, 7, 8, 1023 }

(* hexstr_to_rgb(arg), and the digits print_rgbm writes for the colour *)
CallHexRgb ==
    /\ call = NoCall
    /\ \E arg \in HexArgs :
       \E r \in {hexstr_to_rgb(arg)} :
            call' = [fn |-> "hexstr_to_rgb", arg |-> arg, ret |-> r,
                     out |-> print_rgbm(Rgbm(r.rgb, 0))[1].arg]
    /\ UNCHANGED << cfg, eeprom, booted, pots, strip, mainstrp_bright, rgbmpots, avg,
                    patches, current_patch, programmed, cmdbuf, tx, indicator,
                    steady, adoptedBy, ev >>

(* hexstr_to_rgbm(arg), and the digits print_rgbm writes for the colour *)
CallHexRgbm ==
    /\ call = NoCall
    /\ \E arg \in HexArgs :
       \E r \in {hexstr_to_rgbm(arg)} :
            call' = [fn |-> "hexstr_to_rgbm", arg |-> arg, ret |-> r,
                     out |-> print_rgbm(Rgbm(r.rgb, r.M))[1].arg]
    /\ UNCHANGED << cfg, eeprom, booted, pots, strip, mainstrp_bright, rgbmpots, avg,
                    patches, current_patch, programmed, cmdbuf, tx, indicator,
                    steady, adoptedBy, ev >>

(* rgbm_pot_mov_det(cur, base, d) in the build cfg *)
CallMovDet ==
    /\ call = NoCall
    /\ \E cur \in [Channels -> MovValues], base \in MovBaselines, d \in MovThresholds :
            call' = [fn |-> "rgbm_pot_mov_det",
                     arg |-> [cur |-> cur, base |-> base, d |-> d],
                     ret |-> rgbm_pot_mov_det(cfg, cur, base, d),
                     out |-> << >>]
    /\ UNCHANGED << cfg, eeprom, booted, pots, strip, mainstrp_bright, rgbmpots, avg,
                    patches, current_patch, programmed, cmdbuf, tx, indicator,
                    steady, adoptedBy, ev >>

(* avg_pot_read(pin, n) in the build cfg, analogRead returning reads *)
CallAvgPotRead ==
    /\ call = NoCall
    /\ \E n \in 1..MaxSamples :
       \E reads \in [1..n -> RawPool] :
            call' = [fn |-> "avg_pot_read", arg |-> reads,
                     ret |-> avg_pot_read(cfg, reads), out |-> << >>]
    /\ UNCHANGED << cfg, eeprom, booted, pots, strip, mainstrp_bright, rgbmpots, avg,
                    patches, current_patch, programmed, cmdbuf, tx, indicator,
                    steady, adoptedBy, ev >>

(* SpecFn: the parsers, the movement test and the averaging, each called
   once on its own arguments *)
NextFn == CallHexRgb \/ CallHexRgbm \/ CallMovDet \/ CallAvgPotRead
SpecFn == Init /\ [][NextFn]_vars

----------------------------------------------------------------------------
(* Properties *)

Output == Rgbm(strip, mainstrp_bright)

(* cur differs from base by exactly d on channel ch and not at all elsewhere *)
StepOn(ch, cur, base, d) ==
    /\ abs(cur[ch] - base[ch]) = d
    /\ \A o \in Channels \ {ch} : cur[o] = base[o]

(* C1: Held stability.  In a Held state with baseline avg, a pass of loop()
   whose potentiometer reading equals avg on every channel, with no encoder
   event, leaves the controller Held and leaves the RGB and Main output as they
   were; by induction this holds for any number of consecutive such passes. *)
HeldStability ==
    [][ (programmed /\ ev'.op = "loop" /\ ev'.enc = "none" /\ rgbmpots' = avg)
            => (programmed' /\ strip' = strip /\ mainstrp_bright' = mainstrp_bright)
      ]_vars

(* A pass of loop() ran Held on a reading equal to the baseline, the knobs at
   rest since the baseline was sampled, and left an output that is not the
   reading *)
HeldStabilityWitness ==
    /\ ev.op = "loop" /\ ev.held /\ programmed
    /\ rgbmpots = avg
    /\ steady
    /\ Output # rgbmpots

(* C2 as stated: Held, a reading T+1 away from the baseline on any one of R,
   G, B, Main and equal to it elsewhere: the pass ends Live with the output
   equal to the reading. *)
HeldToLiveAnyChannel ==
    [][ (/\ programmed /\ ev'.op = "loop" /\ ev'.enc = "none"
         /\ \E ch \in Channels :
                StepOn(ch, rgbmpots', avg, cfg.POT_MOV_DET_MAX_DEV + 1))
            => (~programmed' /\ Output' = rgbmpots')
      ]_vars

(* The channels rgbm_pot_mov_det compares in this build *)
Compared == IF cfg.NO_MAIN_STRIP THEN {"R", "G", "B"} ELSE Channels

(* C2 amended: the step is on a compared channel (Main only when the main
   strip is enabled); the pass ends Live, the RGB output is the reading's RGB
   and the Main output is the reading's Main when the main strip is enabled
   and is left as it was when it is not. *)
HeldToLive ==
    [][ (/\ programmed /\ ev'.op = "loop" /\ ev'.enc = "none"
         /\ \E ch \in Compared :
                StepOn(ch, rgbmpots', avg, cfg.POT_MOV_DET_MAX_DEV + 1))
            => (/\ ~programmed'
                /\ strip' = Rgb(rgbmpots')
                /\ mainstrp_bright' =
                     IF cfg.NO_MAIN_STRIP THEN mainstrp_bright ELSE rgbmpots'.M)
      ]_vars

(* A Held pass read a value T+1 away from the baseline on Main alone, with
   the main strip enabled, and ended Live on the reading *)
HeldToLiveWitness ==
    /\ ev.op = "loop" /\ ev.held /\ ~programmed
    /\ ~cfg.NO_MAIN_STRIP
    /\ StepOn("M", rgbmpots, avg, cfg.POT_MOV_DET_MAX_DEV + 1)
    /\ Output = rgbmpots

----------------------------------------------------------------------------
(* The protocol as section 4.4 of the specification words it, written without
   the parser *)

IsHexDigit(ch) == ch \in (48..57) \cup (65..70) \cup (97..102)

HexValue(ch) ==
    IF ch \in 48..57 THEN ch - 48 ELSE IF ch \in 65..70 THEN ch - 65 + 10 ELSE ch - 97 + 10

(* the value of the two hex digits of line at positions i, i + 1 (from 1) *)
ByteAt(line, i) == 16 * HexValue(line[i]) + HexValue(line[i + 1])

WellFormed(line, n) ==
    /\ Len(line) = n
    /\ line[1] = CH_HASH
    /\ \A i \in 2..n : IsHexDigit(line[i])

ParsedRGB(line) == [R |-> ByteAt(line, 2), G |-> ByteAt(line, 4), B |-> ByteAt(line, 6)]

(* input ends a line: its last byte is the terminator and it holds no other
   action character *)
EndsLine(input) ==
    /\ input # << >>
    /\ input[Len(input)] = CH_NL
    /\ \A i \in 1..(Len(input) - 1) : input[i] \notin {CH_g, CH_BEL, CH_NL}

(* the line that input terminates when cmdbuf held buf *)
LineOf(buf, input) == buf \o SubSeq(input, 1, Len(input) - 1)

(* a raw read with the polarity normalised, and its 8-bit value *)
Normal(raw) == IF cfg.POTS_INVERTED THEN 1023 - raw ELSE raw

ByteOf(v) == IF v = 0 THEN 0 ELSE IF v < 4 THEN 1 ELSE v \div 4

(* avg is an average of reads that ended at the position pots; with the
   knobs at rest it is the 8-bit value of that position *)
FreshBaseline ==
    /\ \E r \in [1..POT_MOV_DET_AVG_SAMPLES -> PotPositions \cup PatchPositions] :
        /\ r[POT_MOV_DET_AVG_SAMPLES] = pots
        /\ steady = AllSame(r)
        /\ \A ch \in Channels :
              avg[ch] = ByteOf(SumSeq([i \in 1..POT_MOV_DET_AVG_SAMPLES |->
                                          Normal(r[i][ch])])
                                 \div POT_MOV_DET_AVG_SAMPLES)
    /\ steady => \A ch \in Channels : avg[ch] = ByteOf(Normal(pots[ch]))

(* A pass of loop() without encoder event that read the position the knobs
   have had since the baseline was sampled *)
StationaryPass == steady /\ ev'.op = "loop" /\ ev'.enc = "none" /\ steady'

(* A valid 7-character line: Held, RGB output as parsed, Main output as it
   was, baseline sampled afresh *)
SetRGB ==
    [][ (/\ ev'.op = "serial" /\ EndsLine(ev'.input)
         /\ WellFormed(LineOf(cmdbuf, ev'.input), RGB_HEX_STR_LEN))
            => (/\ programmed'
                /\ strip' = ParsedRGB(LineOf(cmdbuf, ev'.input))
                /\ mainstrp_bright' = mainstrp_bright
                /\ FreshBaseline'
                /\ adoptedBy' = "serialEvent")
      ]_vars

(* The hold a SetColor started lasts while the knobs stay where they were *)
SetColorHolds ==
    [][ (adoptedBy = "serialEvent" /\ programmed /\ StationaryPass)
            => (programmed' /\ Output' = Output) ]_vars

(* C3: RGB-only set.  A well-formed 7-character line puts the controller in
   Held, sets the output R, G, B to the parsed values, leaves the Main output
   unchanged and replaces the baseline with a fresh average; on the following
   cycles with stationary potentiometers the output keeps the parsed colour. *)
SetRGBThenHold == SetRGB /\ SetColorHolds

SetRGBWitness ==
    /\ ev.op = "serial" /\ ev.buf = ChunkHead /\ ev.input = ChunkTail7
    /\ ~ev.held /\ programmed
    /\ strip = [R |-> 26, G |-> 178, B |-> 195]

(* C4 as stated: a well-formed 9-character line puts the controller in Held,
   sets R, G, B to the first six digits and Main to the last two, and a query
   that follows reports those four values. *)
LowerCase(ch) == IF ch \in 65..70 THEN ch + 32 ELSE ch

HexChars == << 48, 49, 50, 51, 52, 53, 54, 55, 56, 57, 97, 98, 99, 100, 101, 102 >>

Hex2(v) == << HexChars[(v \div 16) + 1], HexChars[(v % 16) + 1] >>

ColorLine(digits) == [text |-> "Current Color: #", arg |-> digits]

(* the last handler terminated a well-formed line of n characters *)
AfterLine(n) ==
    /\ ev.op = "serial" /\ EndsLine(ev.input)
    /\ WellFormed(LineOf(ev.buf, ev.input), n)

SetRGBMAlways ==
    /\ [][ (/\ ev'.op = "serial" /\ EndsLine(ev'.input)
            /\ WellFormed(LineOf(cmdbuf, ev'.input), RGBM_HEX_STR_LEN))
               => (/\ programmed'
                   /\ strip' = ParsedRGB(LineOf(cmdbuf, ev'.input))
                   /\ mainstrp_bright' = ByteAt(LineOf(cmdbuf, ev'.input), 8))
         ]_vars
    /\ [][ (AfterLine(RGBM_HEX_STR_LEN) /\ ev'.op = "serial" /\ ev'.input = ChunkQuery)
               => tx'[1] = ColorLine([i \in 1..8 |->
                                LowerCase(LineOf(ev.buf, ev.input)[i + 1])])
         ]_vars

(* C4 amended: as stated when the main strip is enabled; in a build without
   main strip (NO_MAIN_STRIP) the Main output keeps its value, and the query
   reports the parsed R, G, B and that value.  The baseline is sampled
   afresh in both. *)
SetRGBM ==
    /\ [][ (/\ ev'.op = "serial" /\ EndsLine(ev'.input)
            /\ WellFormed(LineOf(cmdbuf, ev'.input), RGBM_HEX_STR_LEN))
               => (/\ programmed'
                   /\ strip' = ParsedRGB(LineOf(cmdbuf, ev'.input))
                   /\ mainstrp_bright' =
                        IF cfg.NO_MAIN_STRIP THEN mainstrp_bright
                        ELSE ByteAt(LineOf(cmdbuf, ev'.input), 8)
                   /\ FreshBaseline'
                   /\ adoptedBy' = "serialEvent")
         ]_vars
    /\ [][ (AfterLine(RGBM_HEX_STR_LEN) /\ ev'.op = "serial" /\ ev'.input = ChunkQuery)
               => tx'[1] = ColorLine(
                      [i \in 1..6 |-> LowerCase(LineOf(ev.buf, ev.input)[i + 1])]
                      \o (IF cfg.NO_MAIN_STRIP THEN Hex2(mainstrp_bright)
                          ELSE [i \in 1..2 |->
                                  LowerCase(LineOf(ev.buf, ev.input)[i + 7])]))
         ]_vars

(* #1aB2c3D4 was set with the main strip enabled and the query that followed
   reported 1ab2c3d4 *)
SetRGBMWitness ==
    /\ ev.op = "serial" /\ ev.input = ChunkQuery
    /\ ~cfg.NO_MAIN_STRIP
    /\ programmed /\ adoptedBy = "serialEvent"
    /\ Output = [R |-> 26, G |-> 178, B |-> 195, M |-> 212]
    /\ tx[1] = ColorLine(<< 49, 97, 98, 50, 99, 51, 100, 52 >>)

(* C5: Invalid command changes nothing.  A terminated line that is neither a
   well-formed #RRGGBB nor a well-formed #RRGGBBMM leaves the output, the
   Held/Live flag, the baseline, the patch bank and the cursor as they were,
   and exactly the invalid-value message is written. *)
InvalidChangesNothing ==
    [][ (/\ ev'.op = "serial" /\ EndsLine(ev'.input)
         /\ ~WellFormed(LineOf(cmdbuf, ev'.input), RGB_HEX_STR_LEN)
         /\ ~WellFormed(LineOf(cmdbuf, ev'.input), RGBM_HEX_STR_LEN))
            => (/\ UNCHANGED << strip, mainstrp_bright, programmed, avg, patches,
                              eeprom, current_patch >>
                /\ tx' = << InvalidLine >>)
      ]_vars

(* The 9-character line #1aB2c3Zz, valid RGB digits and invalid Main digits,
   was received in Live and answered with the message *)
InvalidWitness ==
    /\ ev.op = "serial" /\ ev.buf = << >> /\ ev.input = ChunkBadMain
    /\ ~ev.held /\ ~programmed
    /\ tx = << InvalidLine >>
    /\ strip # [R |-> 26, G |-> 178, B |-> 195]

(* C10: Query reports the output exactly.  On 'g', whatever cmdbuf holds, the
   first line written is "Current Color: #" followed by R, G, B and Main of
   the output as two lower-case hex digits each; cmdbuf is emptied and the
   output, the Held/Live flag, the baseline and the patch bank are left as
   they were. *)
QueryReports ==
    [][ (ev'.op = "serial" /\ ev'.input = ChunkQuery)
            => (/\ Len(tx') = 5
                /\ tx'[1] = ColorLine(Hex2(strip.R) \o Hex2(strip.G) \o Hex2(strip.B)
                                        \o Hex2(mainstrp_bright))
                /\ cmdbuf' = << >>
                /\ UNCHANGED << strip, mainstrp_bright, programmed, avg, patches,
                              eeprom, current_patch >>)
      ]_vars

(* A query arrived while cmdbuf held #1aB and the output had a channel below 16 *)
QueryWitness ==
    /\ ev.op = "serial" /\ ev.buf = ChunkHead /\ ev.input = ChunkQuery
    /\ cmdbuf = << >>
    /\ strip.R < 16 /\ strip.R > 0
    /\ Len(tx) = 5

----------------------------------------------------------------------------
(* Patch bank *)

NavRight == ev'.op = "loop" /\ ev'.enc = "right"
NavLeft == ev'.op = "loop" /\ ev'.enc = "left"
ValidNav == (NavRight /\ current_patch < 9) \/ (NavLeft /\ current_patch > 0)

(* C6: Cursor clamping without wraparound.  The cursor is always in 0..9;
   Previous at 0 and Next at 9 leave it unchanged, every other navigation
   event moves it by exactly one, and no other event moves it (a power-up
   sets it to 0). *)
CursorClamped ==
    /\ [](current_patch \in 0..9)
    /\ [][ current_patch' =
              IF NavRight THEN (IF current_patch = 9 THEN 9 ELSE current_patch + 1)
              ELSE IF NavLeft THEN (IF current_patch = 0 THEN 0 ELSE current_patch - 1)
              ELSE IF ev'.op \in {"reset", "setup"} THEN 0
              ELSE current_patch
         ]_vars

(* Next arrived at cursor 9 and the cursor stayed *)
CursorWitness ==
    /\ ev.op = "loop" /\ ev.enc = "right"
    /\ current_patch = 9
    /\ indicator.req = << "show" >>

(* C7 as stated: a valid Next or Previous puts the controller in Held, sets
   the output, RGB and Main, to the slot at the new cursor and samples the
   baseline afresh. *)
NavAdoptsAll ==
    [][ ValidNav => (/\ programmed'
                     /\ Output' = patches[current_patch']
                     /\ FreshBaseline')
      ]_vars

(* C7 amended: the RGB output is the slot's RGB; the Main output is the
   slot's Main when the main strip is enabled and keeps its value in a build
   without main strip (NO_MAIN_STRIP). *)
NavAdopts ==
    [][ ValidNav => (/\ programmed'
                     /\ strip' = Rgb(patches[current_patch'])
                     /\ mainstrp_bright' =
                          IF cfg.NO_MAIN_STRIP THEN mainstrp_bright
                          ELSE patches[current_patch'].M
                     /\ FreshBaseline'
                     /\ adoptedBy' = "change_patch"
                     /\ UNCHANGED << patches, eeprom >>)
      ]_vars

(* Previous arrived in Live at cursor 3 and patch 2 was adopted *)
NavWitness ==
    /\ ev.op = "loop" /\ ev.enc = "left" /\ ~ev.held
    /\ current_patch = 2
    /\ programmed
    /\ ~cfg.NO_MAIN_STRIP
    /\ Output = Slot(2)

(* the arbitration of a pass, restated: movement on a compared channel *)
Moved(cur, base) ==
    \E ch \in Compared : abs(cur[ch] - base[ch]) > cfg.POT_MOV_DET_MAX_DEV

(* C8: Save persists the current output.  A pass of loop() with a save event
   writes the output of that pass into the slot at the cursor, in memory and
   in the EEPROM; when the pass ends Held that output is the held colour,
   not the reading.  No other slot, the cursor and the baseline change, and
   Held/Live is what the arbitration of the pass alone makes it. *)
SavePersists ==
    [][ (ev'.op = "loop" /\ ev'.enc = "pressed")
            => (/\ patches' = [patches EXCEPT ![current_patch] = Output']
                /\ eeprom' = [eeprom EXCEPT ![current_patch] = Output']
                /\ current_patch' = current_patch
                /\ avg' = avg
                /\ programmed' = (programmed /\ ~Moved(rgbmpots', avg))
                /\ programmed' => Output' = Output)
      ]_vars

(* A save arrived while patch 0 was selected and a colour set over serial was
   held: both copies of slot 0 are that colour, not the reading *)
SaveWitness ==
    /\ ev.op = "loop" /\ ev.enc = "pressed" /\ ev.held /\ programmed
    /\ current_patch = 0
    /\ adoptedBy = "serialEvent"
    /\ patches[0] = Output /\ eeprom[0] = Output
    /\ Output.R = 26 /\ Output # rgbmpots

(* C9: Boot state.  After setup() the cursor is 0, the controller is Held, the
   baseline is the average of the reads setup() took and the output is the
   four channel values of patch[0], whatever the EEPROM holds; with the knobs
   at rest the following passes of loop() keep it so. *)
BootState ==
    /\ [](ev.op = "setup" => (/\ current_patch = 0
                              /\ programmed
                              /\ FreshBaseline
                              /\ patches = eeprom
                              /\ Output = patches[0]))
    /\ [][ (adoptedBy = "setup" /\ programmed /\ StationaryPass)
              => (programmed' /\ Output' = Output) ]_vars

----------------------------------------------------------------------------
(* The functions on their own *)

(* the hex digits of a line after its first character, in lower case *)
LowerDigits(line) == [i \in 1..(Len(line) - 1) |-> LowerCase(line[i + 1])]

(* C11: Hex round trip.  Parsing '#' and six hex digits, upper or lower case,
   and formatting the parsed R, G, B as two hex digits each gives the six
   digits again in lower case; parsing '#' and eight hex digits decodes the
   first six as R, G, B and the last two as Main, and formatting the four
   gives the eight digits again in lower case. *)
HexRoundTrip ==
    /\ (call.fn = "hexstr_to_rgb" /\ WellFormed(call.arg, RGB_HEX_STR_LEN))
          => (/\ call.ret.ok
              /\ SubSeq(call.out, 1, 6) = LowerDigits(call.arg))
    /\ (call.fn = "hexstr_to_rgbm" /\ WellFormed(call.arg, RGBM_HEX_STR_LEN))
          => (/\ call.ret.ok
              /\ call.ret.rgb = ParsedRGB(call.arg)
              /\ call.ret.M = ByteAt(call.arg, 8)
              /\ call.out = LowerDigits(call.arg))

(* #1aB2fF9A was parsed and formatted as 1ab2ff9a *)
HexRoundTripWitness ==
    /\ call.fn = "hexstr_to_rgbm"
    /\ call.arg = << 35, 49, 97, 66, 50, 102, 70, 57, 65 >>
    /\ call.ret.ok
    /\ call.out = << 49, 97, 98, 50, 102, 102, 57, 97 >>

(* C12: Hex parse rejection.  hexstr_to_rgb succeeds for '#' followed by
   exactly six hex digits and fails for every other string: a hex part of
   another length, a character that is no hex digit, no leading '#'. *)
HexRgbRejects ==
    call.fn = "hexstr_to_rgb" => (call.ret.ok <=> WellFormed(call.arg, RGB_HEX_STR_LEN))

(* What hexstr_to_rgb does reject: no leading '#', or a character that is no
   hex digit among the at most six that follow it *)
HexRgbRejectsBadCharacters ==
    call.fn = "hexstr_to_rgb"
        => (call.ret.ok <=>
               (/\ call.arg # << >>
                /\ call.arg[1] = CH_HASH
                /\ \A i \in 2..Len(call.arg) : i <= RGB_HEX_STR_LEN => IsHexDigit(call.arg[i])))

Dist(x, y) == IF x >= y THEN x - y ELSE y - x

(* C13: Movement detection is a strict per-channel threshold.
   rgbm_pot_mov_det(current, baseline, d) is true exactly when a compared
   channel (R, G, B, and Main when the main strip is enabled) differs from the
   baseline by more than d; a difference of d on every channel gives false,
   equal samples give false for every d, and in a build without main strip a
   difference on Main alone gives false. *)
MovDetStrict ==
    call.fn = "rgbm_pot_mov_det"
        => LET cur == call.arg.cur
               base == call.arg.base
               d == call.arg.d
           IN  /\ call.ret <=> \E ch \in Compared : Dist(cur[ch], base[ch]) > d
               /\ (\A ch \in Channels : Dist(cur[ch], base[ch]) = d) => ~call.ret
               /\ cur = base => ~call.ret
               /\ (cfg.NO_MAIN_STRIP /\ \A ch \in {"R", "G", "B"} : cur[ch] = base[ch])
                     => ~call.ret

(* every channel was exactly the threshold 1 away from the baseline and no
   movement was reported *)
MovDetWitness ==
    /\ call.fn = "rgbm_pot_mov_det"
    /\ call.arg.d = 1
    /\ \A ch \in Channels : Dist(call.arg.cur[ch], call.arg.base[ch]) = 1
    /\ call.ret = FALSE

(* in a build without main strip Main was 255 away from the baseline and no
   movement was reported *)
MovDetMainWitness ==
    /\ call.fn = "rgbm_pot_mov_det"
    /\ cfg.NO_MAIN_STRIP
    /\ Dist(call.arg.cur.M, call.arg.base.M) = 255
    /\ call.arg.d = 0
    /\ call.ret = FALSE

----------------------------------------------------------------------------
(* Live *)

(* the 8-bit reading of the position raw, lower bounds applied *)
ReadingAt(raw) ==
    [ch \in Channels |->
        LET v == ByteOf(Normal(raw[ch]))
        IN  IF v <= cfg.LOWER_BOUND[ch] THEN 0 ELSE v]

(* the step terminates a well-formed colour line *)
ValidSetColor ==
    /\ ev'.op = "serial" /\ EndsLine(ev'.input)
    /\ \/ WellFormed(LineOf(cmdbuf, ev'.input), RGB_HEX_STR_LEN)
       \/ WellFormed(LineOf(cmdbuf, ev'.input), RGBM_HEX_STR_LEN)

(* C14 as stated: a pass of loop() that begins in Live ends its arbitration
   with the output, RGB and Main, equal to the reading of that pass, and the
   controller stays Live unless a valid SetColor or a valid navigation
   occurs. *)
LiveTracksAll ==
    [][ /\ (~programmed /\ ev'.op = "loop" /\ ~ValidNav)
            => (/\ rgbmpots' = ReadingAt(pots')
                /\ Output' = rgbmpots'
                /\ ~programmed')
        /\ (~programmed /\ ev'.op = "serial" /\ ~ValidSetColor) => ~programmed'
      ]_vars

(* C14 amended: the RGB output equals the reading; the Main output equals the
   reading's Main when the main strip is enabled and keeps its value in a
   build without main strip (NO_MAIN_STRIP).  The baseline is neither
   consulted nor changed. *)
LiveTracks ==
    [][ /\ (~programmed /\ ev'.op = "loop" /\ ~ValidNav)
            => (/\ rgbmpots' = ReadingAt(pots')
                /\ strip' = Rgb(rgbmpots')
                /\ mainstrp_bright' =
                     IF cfg.NO_MAIN_STRIP THEN mainstrp_bright ELSE rgbmpots'.M
                /\ avg' = avg
                /\ ~programmed')
        /\ (~programmed /\ ev'.op = "serial" /\ ~ValidSetColor) => ~programmed'
      ]_vars

(* A pass began in Live and read the very values of the baseline while the
   output was another colour: the output is the reading *)
LiveTracksWitness ==
    /\ ev.op = "loop" /\ ev.enc = "none" /\ ~ev.held /\ ~programmed
    /\ ~cfg.NO_MAIN_STRIP
    /\ rgbmpots = avg
    /\ Output = rgbmpots

----------------------------------------------------------------------------
(* The line buffer *)

ActionChars == { CH_g, CH_BEL, CH_NL }

(* the bytes of s after its last action character *)
Pending(s) ==
    LET at == { i \in 1..Len(s) : s[i] \in ActionChars }
    IN  IF at = { } THEN s
        ELSE SubSeq(s, (CHOOSE i \in at : \A j \in at : j <= i) + 1, Len(s))

(* C15: Buffer reset and recovery.  After every handler the line buffer holds
   exactly the bytes received since the last action character ('g', the
   credits character, the line terminator), so it is empty right after one;
   a loop pass leaves it alone.  An over-long line followed by its terminator
   and a well-formed #RRGGBB line yields the invalid-value message for the
   first and applies the second; and after every input both loop() and
   serialEvent() can run again. *)
BufferResets ==
    /\ [][ /\ ev'.op = "serial" => cmdbuf' = Pending(cmdbuf \o ev'.input)
           /\ (ev'.op = "serial" /\ ev'.input[Len(ev'.input)] \in ActionChars)
                 => cmdbuf' = << >>
           /\ ev'.op = "loop" => cmdbuf' = cmdbuf
           /\ (ev'.op = "serial" /\ ev'.input = ChunkRecover)
                 => (/\ programmed'
                     /\ strip' = [R |-> 26, G |-> 178, B |-> 195]
                     /\ tx' = << InvalidLine >>)
         ]_vars
    /\ [](\A i \in 1..Len(cmdbuf) : cmdbuf[i] \notin ActionChars)
    /\ [](booted => (ENABLED SerialLoop /\ ENABLED SerialEvent))

(* An over-long line and a well-formed line arrived in Live: one
   invalid-value message was written and the colour of the second is held *)
BufferResetsWitness ==
    /\ ev.op = "serial" /\ ev.input = ChunkRecover
    /\ ~ev.held /\ programmed
    /\ strip = [R |-> 26, G |-> 178, B |-> 195]
    /\ tx = << InvalidLine >>
    /\ cmdbuf = << >>

(* C16: Credits restore the output.  When the credits character has been
   handled the output colour is what it was before, the buffer is empty, and
   the Held/Live flag, the baseline, the patch bank and the cursor are
   unchanged; nothing is written to Serial. *)
CreditsRestore ==
    [][ (ev'.op = "serial" /\ ev'.input = ChunkCredits)
            => (/\ Output' = Output
                /\ cmdbuf' = << >>
                /\ tx' = << >>
                /\ UNCHANGED << programmed, avg, patches, eeprom, current_patch >>)
      ]_vars

(* The credits character arrived with characters pending while a colour set
   over serial was held: the colour is still there, the buffer is empty *)
CreditsWitness ==
    /\ ev.op = "serial" /\ ev.input = ChunkCredits
    /\ ev.buf # << >> /\ cmdbuf = << >>
    /\ ev.held /\ programmed
    /\ strip = [R |-> 26, G |-> 178, B |-> 195]

----------------------------------------------------------------------------
(* Navigation at the ends of the bank *)

InvalidNav == (NavLeft /\ current_patch = 0) \/ (NavRight /\ current_patch = 9)

(* What change_patch leaves alone on a navigation that is not valid: the
   cursor, the baseline and the bank; Held/Live and the output are what the
   arbitration of the pass made them *)
InvalidNavKeeps ==
    [][ InvalidNav
            => (/\ UNCHANGED << current_patch, avg, patches, eeprom >>
                /\ programmed' = (programmed /\ ~Moved(rgbmpots', avg))
                /\ programmed' => Output' = Output
                /\ indicator'.digit = indicator.digit)
      ]_vars

(* C17: Invalid navigation has no side effect.  Previous at cursor 0 and Next
   at cursor 9 leave the cursor, the output, the Held/Live flag and the
   baseline unchanged, and no request, neither set nor show, is made to the
   patch indicator. *)
InvalidNavSilent ==
    InvalidNavKeeps /\ [][ InvalidNav => indicator'.req = << >> ]_vars

----------------------------------------------------------------------------
(* Averaging *)

(* s / n rounded to the nearest integer, halves upwards *)
RoundDiv(s, n) == (2 * s + n) \div (2 * n)

(* the sum of the reads with the polarity normalised *)
NormalSum(reads) == SumSeq([i \in 1..Len(reads) |-> Normal(reads[i])])

(* C18: Averaging rounds instead of truncating.  For n >= 1 reads in 0..1023
   the average avg_pot_read returns is the sum of the reads divided by n and
   rounded to the nearest integer, mapped to 8 bits (0 to 0, 1..3 to 1, the
   rest divided by 4). *)
AveragingRounds ==
    call.fn = "avg_pot_read"
        => call.ret = ByteOf(RoundDiv(NormalSum(call.arg), Len(call.arg)))

(* What avg_pot_read returns: the quotient truncated, mapped to 8 bits *)
AveragingTruncates ==
    call.fn = "avg_pot_read"
        => call.ret = ByteOf(NormalSum(call.arg) \div Len(call.arg))

----------------------------------------------------------------------------
(* Stationary potentiometers *)

(* C19: Stationary potentiometers never break a hold.  While every read
   since the baseline was sampled (by setup(), a valid colour line or a valid
   navigation) returned the same position, the controller is Held, for every
   position, those at or below a lower bound included. *)
StationaryHolds == steady => programmed

(* It is so in the builds without lower bounds *)
StationaryHoldsUnbounded == (steady /\ cfg.LOWER_BOUND = NoBound) => programmed

----------------------------------------------------------------------------
(* Memory and storage *)

(* C20: Memory and storage agree.  From setup() on, through every pass of
   loop(), navigation, save and serial command, each of the ten slots of
   patches equals the slot of the EEPROM; a power cycle therefore finds in
   the EEPROM the bank that was in memory, and setup() loads exactly it. *)
MemoryIsStorage ==
    /\ [](booted => (/\ DOMAIN patches = 0..(NumPatches - 1)
                     /\ \A i \in 0..(NumPatches - 1) : patches[i] = eeprom[i]))
    /\ [][ /\ ev'.op = "reset" => eeprom' = patches
           /\ ev'.op = "setup" => (patches' = eeprom /\ eeprom' = eeprom)
         ]_vars

(* The colour set over serial was saved to slot 0 and a power cycle later
   setup() has loaded it *)
MemoryWitness ==
    /\ ev.op = "setup"
    /\ patches[0] = [R |-> 26, G |-> 178, B |-> 195, M |-> 212]
    /\ patches = eeprom
    /\ Output = patches[0]

----------------------------------------------------------------------------
(* Held and the adopted colour *)

(* the step adopts a colour: setup(), a valid navigation, a valid colour line *)
Adopts == ev'.op = "setup" \/ ValidNav \/ ValidSetColor

(* the colour the step adopts, as the claim words it: patch[0] at boot, the
   slot at the new cursor, the colour of the line, with Main as it was for a
   7-character line *)
AdoptedColor ==
    IF ev'.op = "setup" THEN eeprom[0]
    ELSE IF ValidNav THEN patches[current_patch']
    ELSE IF Len(LineOf(cmdbuf, ev'.input)) = RGB_HEX_STR_LEN
        THEN Rgbm(ParsedRGB(LineOf(cmdbuf, ev'.input)), mainstrp_bright)
    ELSE Rgbm(ParsedRGB(LineOf(cmdbuf, ev'.input)), ByteAt(LineOf(cmdbuf, ev'.input), 8))

(* the step is a pass of loop(), setup(), or one serial action: bytes with no
   action character before the last *)
OneAction ==
    ev'.op = "serial"
        => \A i \in 1..(Len(ev'.input) - 1) : ev'.input[i] \notin ActionChars

(* C21 as stated: whenever a pass of loop() or a serial action ends Held the
   output is the most recently adopted colour, all four channels: a step
   that adopts one leaves it on the output, any other step that ends Held
   began Held and left the output as it was. *)
HeldShowsAdoptedAll ==
    [][ (OneAction /\ programmed')
            => IF Adopts THEN Output' = AdoptedColor
               ELSE programmed /\ Output' = Output
      ]_vars

(* C21 amended: the RGB output is the RGB of the adopted colour; the Main
   output is its Main when the main strip is enabled and keeps its value in a
   build without main strip (NO_MAIN_STRIP).  The reading reaches the output
   only in a pass that ends Live. *)
HeldShowsAdopted ==
    [][ /\ (OneAction /\ programmed')
            => IF Adopts
                   THEN /\ strip' = Rgb(AdoptedColor)
                        /\ mainstrp_bright' =
                             IF cfg.NO_MAIN_STRIP THEN mainstrp_bright
                             ELSE AdoptedColor.M
               ELSE programmed /\ Output' = Output
        /\ (ev'.op = "loop" /\ ~ValidNav /\ Output' # Output)
               => (~programmed' /\ Output' = Rgbm(Rgb(rgbmpots'), mainstrp_bright'))
      ]_vars

(* Patch 2 was adopted, then #1aB2c3 arrived: Held, with the colour of the
   line and the Main value of patch 2 on the output, which is not the
   reading *)
HeldShowsAdoptedWitness ==
    /\ ev.op = "serial" /\ ev.input = ChunkLine7
    /\ programmed /\ ~cfg.NO_MAIN_STRIP
    /\ current_patch = 2
    /\ Output = [R |-> 26, G |-> 178, B |-> 195, M |-> Slot(2).M]
    /\ Output # rgbmpots

====
